---- MODULE Spec2Model ----
(***************************************************************************)
(* A model of the Brzozowski-derivative regex engine of src/src/ast.rs:    *)
(* the Regex tree, nullable, null, derivative, the matches driver and the  *)
(* combinators repeat, literal, remainder and fractional_remainder.        *)
(*                                                                         *)
(* A run of the model is one call of matches: `call` is the constructor    *)
(* call of the caller, `start` the tree it built, `consumed` the           *)
(* characters the loop has taken so far, `current` the tree after them,    *)
(* and Return is the final nullable test.                                  *)
(***************************************************************************)
EXTENDS Integers, Sequences, FiniteSets

VARIABLES call, start, consumed, current, pc, result, overflow_checks

vars == <<call, start, consumed, current, pc, result, overflow_checks>>

(***************************************************************************)
(* Characters are one-character strings.                                   *)
(***************************************************************************)
Digits == <<"0", "1", "2", "3", "4", "5", "6", "7", "8", "9">>

DigitChars == {Digits[i] : i \in 1..10}

NoDigit == 0 - 1

DigitValue == [c \in DigitChars |-> (CHOOSE i \in 1..10 : Digits[i] = c) - 1]

\* char::to_digit(10): the digit's value, or NoDigit for None.
ToDigit(c) == IF c \in DigitChars THEN DigitValue[c] ELSE NoDigit

(***************************************************************************)
(* The Regex enum.  Every variant but Remainder is a record with the same  *)
(* three fields; kids holds the Vec (or the one boxed child).              *)
(***************************************************************************)
Empty == [tag |-> "Empty", ch |-> "", kids |-> <<>>]

Epsilon == [tag |-> "Epsilon", ch |-> "", kids |-> <<>>]

Literal(c) == [tag |-> "Literal", ch |-> c, kids |-> <<>>]

Concat(rxs) == [tag |-> "Concat", ch |-> "", kids |-> rxs]

Or(rxs) == [tag |-> "Or", ch |-> "", kids |-> rxs]

And(rxs) == [tag |-> "And", ch |-> "", kids |-> rxs]

Not(r) == [tag |-> "Not", ch |-> "", kids |-> <<r>>]

Star(r) == [tag |-> "Star", ch |-> "", kids |-> <<r>>]

Remainder(d, cur, tgt, sc, fm) ==
    [tag |-> "Remainder", divisor |-> d, current_remainder |-> cur,
     target_remainder |-> tgt, scale |-> sc, fractional_mode |-> fm]

(***************************************************************************)
(* u32 arithmetic.  A value that may not fit TLC's integers is kept as     *)
(* <<hi, lo>> with value hi * 2^16 + lo and lo < 2^16; it fits a u32       *)
(* exactly when hi < 2^16.                                                 *)
(***************************************************************************)
Half == 2 ^ 16

Wide(n) == <<n \div Half, n % Half>>

WNorm(h, l) == <<h + (l \div Half), l % Half>>

WMul(w, k) == WNorm(w[1] * k, w[2] * k)

WAdd(a, b) == WNorm(a[1] + b[1], a[2] + b[2])

\* the value is above u32::MAX
Overflows(w) == w[1] >= Half

\* the value modulo 2^32: what the build without overflow checks stores
Wrap(w) == <<w[1] % Half, w[2]>>

RECURSIVE ShiftMod(_, _, _)
\* (a * 2^k) % d for a < d, by doubling
ShiftMod(a, k, d) == IF k = 0 THEN a ELSE ShiftMod((2 * a) % d, k - 1, d)

\* w % d for a u32 w and 1 <= d < 2^30
WMod(w, d) ==
    IF w[1] = 0 THEN w[2] % d
    ELSE (ShiftMod(w[1] % d, 16, d) + (w[2] % d)) % d

RECURSIVE Pow10(_)
\* 10_u32.pow(n) as the wrapping build computes it
Pow10(n) == IF n = 0 THEN Wide(1) ELSE Wrap(WMul(Pow10(n - 1), 10))

RECURSIVE Pow10Overflows(_)
\* 10_u32.pow(n) exceeds u32::MAX
Pow10Overflows(n) ==
    IF n = 0 THEN FALSE
    ELSE Pow10Overflows(n - 1) \/ Overflows(WMul(Pow10(n - 1), 10))

(***************************************************************************)
(* The digit branch of the Remainder arm (lines 101-105): the two operands *)
(* of the sum, the sum, and the remainder that is stored.                  *)
(***************************************************************************)
\* RemLeft without the shift of the integer part by one decimal place
RemLeftNoShift(node) == Wide(node.current_remainder)

\* the left operand: current_remainder * 10, or current_remainder
RemLeft(node) ==
    IF ~node.fractional_mode
    THEN WMul(Wide(node.current_remainder), 10)
    ELSE Wide(node.current_remainder)

\* RemExponent with the fractional digit weighted 10^scale
RemExponentNoDecrement(node) == node.scale

\* the exponent handed to 10_u32.pow
RemExponent(node) ==
    IF ~node.fractional_mode THEN node.scale ELSE node.scale - 1

\* the right operand: digit * 10_u32.pow(..)
RemRight(node, digit) == WMul(Pow10(RemExponent(node)), digit)

\* the sum as the wrapping build computes it
RemSum(node, digit) ==
    Wrap(WAdd(Wrap(RemLeft(node)), Wrap(RemRight(node, digit))))

\* some operation of the digit branch leaves the u32 range
RemOverflows(node, digit) ==
    \/ Overflows(RemLeft(node))
    \/ Pow10Overflows(RemExponent(node))
    \/ Overflows(RemRight(node, digit))
    \/ Overflows(WAdd(Wrap(RemLeft(node)), Wrap(RemRight(node, digit))))

\* RemNext without the reduction modulo the divisor
RemNextNoMod(node, digit) ==
    RemSum(node, digit)[1] * Half + RemSum(node, digit)[2]

\* the new current_remainder
RemNext(node, digit) == WMod(RemSum(node, digit), node.divisor)

\* RemainderDerivative with the digit branch building fractional_mode: false
RemainderDerivativeResetsMode(node, c) ==
    IF ~node.fractional_mode /\ c = "."
    THEN Remainder(node.divisor, node.current_remainder, node.target_remainder,
                   node.scale, TRUE)
    ELSE IF ToDigit(c) # NoDigit
    THEN IF node.fractional_mode /\ node.scale = 0
         THEN Empty
         ELSE Remainder(node.divisor, RemNext(node, ToDigit(c)),
                        node.target_remainder,
                        IF node.fractional_mode THEN node.scale - 1 ELSE node.scale,
                        FALSE)
    ELSE Empty

\* RemainderDerivative with the scale decremented by every digit
RemainderDerivativeAlwaysDecrements(node, c) ==
    IF ~node.fractional_mode /\ c = "."
    THEN Remainder(node.divisor, node.current_remainder, node.target_remainder,
                   node.scale, TRUE)
    ELSE IF ToDigit(c) # NoDigit
    THEN IF node.fractional_mode /\ node.scale = 0
         THEN Empty
         ELSE Remainder(node.divisor, RemNext(node, ToDigit(c)),
                        node.target_remainder,
                        IF node.scale > 0 THEN node.scale - 1 ELSE node.scale,
                        node.fractional_mode)
    ELSE Empty

\* RemainderDerivative with a character that is no digit skipped
RemainderDerivativeSkipsOthers(node, c) ==
    IF ~node.fractional_mode /\ c = "."
    THEN Remainder(node.divisor, node.current_remainder, node.target_remainder,
                   node.scale, TRUE)
    ELSE IF ToDigit(c) # NoDigit
    THEN IF node.fractional_mode /\ node.scale = 0
         THEN Empty
         ELSE Remainder(node.divisor, RemNext(node, ToDigit(c)),
                        node.target_remainder,
                        IF node.fractional_mode THEN node.scale - 1 ELSE node.scale,
                        node.fractional_mode)
    ELSE node

\* RemainderDerivative with the '.' step starting the remainder afresh
RemainderDerivativePointResets(node, c) ==
    IF ~node.fractional_mode /\ c = "."
    THEN Remainder(node.divisor, 0, node.target_remainder, node.scale, TRUE)
    ELSE IF ToDigit(c) # NoDigit
    THEN IF node.fractional_mode /\ node.scale = 0
         THEN Empty
         ELSE Remainder(node.divisor, RemNext(node, ToDigit(c)),
                        node.target_remainder,
                        IF node.fractional_mode THEN node.scale - 1 ELSE node.scale,
                        node.fractional_mode)
    ELSE Empty

\* the derivative of a Remainder node (lines 82-117)
RemainderDerivative(node, c) ==
    IF ~node.fractional_mode /\ c = "."
    THEN Remainder(node.divisor, node.current_remainder, node.target_remainder,
                   node.scale, TRUE)
    ELSE IF ToDigit(c) # NoDigit
    THEN IF node.fractional_mode /\ node.scale = 0
         THEN Empty
         ELSE Remainder(node.divisor, RemNext(node, ToDigit(c)),
                        node.target_remainder,
                        IF node.fractional_mode THEN node.scale - 1 ELSE node.scale,
                        node.fractional_mode)
    ELSE Empty

\* the step on a Remainder node panics: a remainder by zero in every build,
\* an overflow in a build with overflow checks
RemainderPanics(node, c, checks) ==
    /\ ~(~node.fractional_mode /\ c = ".")
    /\ ToDigit(c) # NoDigit
    /\ ~(node.fractional_mode /\ node.scale = 0)
    /\ \/ checks /\ RemOverflows(node, ToDigit(c))
       \/ node.divisor = 0

(***************************************************************************)
(* nullable, null, derivative                                              *)
(***************************************************************************)
RECURSIVE nullable(_)

\* nullable with the Not arm returning the nullability of the operand
nullableNotIgnored(r) ==
    CASE r.tag = "Empty" -> FALSE
      [] r.tag = "Epsilon" -> TRUE
      [] r.tag = "Literal" -> FALSE
      [] r.tag = "Concat" -> \A i \in 1..Len(r.kids) : nullable(r.kids[i])
      [] r.tag = "Or" -> \E i \in 1..Len(r.kids) : nullable(r.kids[i])
      [] r.tag = "And" -> \A i \in 1..Len(r.kids) : nullable(r.kids[i])
      [] r.tag = "Not" -> nullable(r.kids[1])
      [] r.tag = "Star" -> TRUE
      [] r.tag = "Remainder" -> r.current_remainder = r.target_remainder

\* nullable (lines 25-41)
nullable(r) ==
    CASE r.tag = "Empty" -> FALSE
      [] r.tag = "Epsilon" -> TRUE
      [] r.tag = "Literal" -> FALSE
      [] r.tag = "Concat" -> \A i \in 1..Len(r.kids) : nullable(r.kids[i])
      [] r.tag = "Or" -> \E i \in 1..Len(r.kids) : nullable(r.kids[i])
      [] r.tag = "And" -> \A i \in 1..Len(r.kids) : nullable(r.kids[i])
      [] r.tag = "Not" -> ~nullable(r.kids[1])
      [] r.tag = "Star" -> TRUE
      [] r.tag = "Remainder" -> r.current_remainder = r.target_remainder

\* null with the nullability test dropped
nullAlwaysEpsilon(r) == Epsilon

\* null (lines 43-49)
null(r) == IF nullable(r) THEN Epsilon ELSE Empty

RECURSIVE derivative(_, _)

\* the one element of a one-element set
Only(S) == CHOOSE x \in S : TRUE

\* rxs.iter().map(|r| r.derivative(c)).collect()
DerivativeEach(rxs, c) == [i \in 1..Len(rxs) |-> derivative(rxs[i], c)]

\* rxs.iter().map(|r| r.null()).collect()
NullEach(rxs) == [i \in 1..Len(rxs) |-> null(rxs[i])]

\* deriv_concat with the second summand not guarded by vr
deriv_concatUnguarded(dr, vr, s, ds) == Or(<<Concat(<<dr, s>>), ds>>)

\* deriv_concat (lines 64-69), given ds = s.derivative(c)
deriv_concat(dr, vr, s, ds) == Or(<<Concat(<<dr, s>>), Concat(<<vr, ds>>)>>)

RECURSIVE ConcatFold(_, _, _, _)

\* ConcatFold with null_so_far overwritten by the null of the last element
ConcatFoldLastNull(rxs, ds, ns, i) ==
    IF i = 0 THEN <<Empty, Epsilon>>
    ELSE Only({<<deriv_concat(prev[1], prev[2], rxs[i], ds[i]), ns[i]>> :
               prev \in {ConcatFold(rxs, ds, ns, i - 1)}})

\* ConcatFold with deriv_so_far overwritten by the last summand
ConcatFoldLastDeriv(rxs, ds, ns, i) ==
    IF i = 0 THEN <<Empty, Epsilon>>
    ELSE Only({<<deriv_concat(Empty, prev[2], rxs[i], ds[i]),
                 Concat(<<prev[2], ns[i]>>)>> :
               prev \in {ConcatFold(rxs, ds, ns, i - 1)}})

\* the loop of the Concat arm (lines 70-76): <<deriv_so_far, null_so_far>>
\* after the first i elements, given the derivative ds[j] and the null
\* projection ns[j] of each element
ConcatFold(rxs, ds, ns, i) ==
    IF i = 0 THEN <<Empty, Epsilon>>
    ELSE Only({<<deriv_concat(prev[1], prev[2], rxs[i], ds[i]),
                 Concat(<<prev[2], ns[i]>>)>> :
               prev \in {ConcatFold(rxs, ds, ns, i - 1)}})

derivative(r, c) ==
    CASE r.tag = "Empty" -> Empty
      [] r.tag = "Epsilon" -> Empty
      [] r.tag = "Literal" -> IF r.ch = c THEN Epsilon ELSE Empty
      [] r.tag = "Concat" ->
            ConcatFold(r.kids, DerivativeEach(r.kids, c), NullEach(r.kids),
                       Len(r.kids))[1]
      [] r.tag = "Or" -> Or(DerivativeEach(r.kids, c))
      [] r.tag = "And" -> And(DerivativeEach(r.kids, c))
      [] r.tag = "Not" -> Not(derivative(r.kids[1], c))
      [] r.tag = "Star" -> Concat(<<derivative(r.kids[1], c), Star(r.kids[1])>>)
      [] r.tag = "Remainder" -> RemainderDerivative(r, c)

RECURSIVE DerivativePanics(_, _, _)
\* derivative(r, c) panics: derivative recurses into every child of every
\* variant, so it panics exactly when the step of some Remainder node does
DerivativePanics(r, c, checks) ==
    IF r.tag = "Remainder" THEN RemainderPanics(r, c, checks)
    ELSE \E i \in 1..Len(r.kids) : DerivativePanics(r.kids[i], c, checks)

RECURSIVE matches(_, _)
\* matches (lines 121-127) on an input no step of which panics
matches(r, s) ==
    IF s = <<>> THEN nullable(r) ELSE matches(derivative(r, Head(s)), Tail(s))

(***************************************************************************)
(* Combinators                                                             *)
(***************************************************************************)
\* remainder with one fractional digit allowed
remainderScaleOne(divisor, rem) == Remainder(divisor, 0, rem, 1, FALSE)

\* remainder (lines 165-173)
remainder(divisor, rem) == Remainder(divisor, 0, rem, 0, FALSE)

\* fractional_remainder, given the (divisor, scale) scale_divisor returned
fractional_remainder(divisor, scale, rem) == Remainder(divisor, 0, rem, scale, FALSE)

(***************************************************************************)
(* The matches loop as a state machine                                     *)
(***************************************************************************)
\* one iteration of the loop of matches on character c
Step(c) ==
    /\ pc = "loop"
    /\ consumed' = Append(consumed, c)
    /\ IF DerivativePanics(current, c, overflow_checks)
       THEN /\ pc' = "panicked"
            /\ current' = current
       ELSE /\ pc' = "loop"
            /\ current' = derivative(current, c)
    /\ UNCHANGED <<call, start, result, overflow_checks>>

\* the input is exhausted: matches returns current.nullable()
Return ==
    /\ pc = "loop"
    /\ pc' = "done"
    /\ result' = nullable(current)
    /\ UNCHANGED <<call, start, consumed, current, overflow_checks>>

\* the state matches starts in, on the tree that the call `by` built
Begin(by, tree, checks) ==
    /\ call = by
    /\ start = tree
    /\ current = tree
    /\ consumed = <<>>
    /\ pc = "loop"
    /\ result = FALSE
    /\ overflow_checks = checks

(***************************************************************************)
(* test_remainder: integer divisors, decimal numerals                      *)
(***************************************************************************)
TestMaxDivisor == 27

TestLimit == 1000

RECURSIVE to_string(_)
\* u32::to_string
to_string(i) ==
    IF i < 10 THEN <<Digits[i + 1]>>
    ELSE Append(to_string(i \div 10), Digits[(i % 10) + 1])

RECURSIVE DecValue(_)
\* the number a string of digits denotes
DecValue(s) ==
    IF s = <<>> THEN 0
    ELSE 10 * DecValue(SubSeq(s, 1, Len(s) - 1)) + ToDigit(s[Len(s)])

InitRem ==
    \E d \in 1..TestMaxDivisor : \E r \in 0..(d - 1) :
        Begin(<<"remainder", d, r>>, remainder(d, r), TRUE)

NextRem ==
    \/ \E c \in DigitChars :
          /\ Len(consumed) < Len(to_string(TestLimit - 1))
          /\ Step(c)
    \/ Return

SpecRem == InitRem /\ [][NextRem]_vars

\* C1: for d in [1,27], r in [0,d) and i in [0,1000), matches(remainder(d,r),
\* i.to_string()) is true exactly when i mod d = r.
C1_RemainderMatchesMod ==
    (/\ pc = "done"
     /\ consumed = to_string(DecValue(consumed))
     /\ DecValue(consumed) < TestLimit)
    => (result = (DecValue(consumed) % start.divisor = start.target_remainder))

\* 999 = 27 * 37 is accepted by remainder(27, 0)
C1_Witness ==
    /\ pc = "done"
    /\ consumed = to_string(TestLimit - 1)
    /\ start.divisor = TestMaxDivisor
    /\ start.target_remainder = 0
    /\ result = TRUE

(***************************************************************************)
(* Remainder nodes with a scale: what fractional_remainder builds from the *)
(* (divisor, scale) of scale_divisor.  The input alphabet has some digits, *)
(* the decimal point and a character that is neither.                      *)
(***************************************************************************)
MaxFracDivisor == 6

MaxScale == 2

MaxFracLen == 4

FracChars == {"0", "1", "2", "5", ".", "x"}

InitFrac ==
    \E d \in 1..MaxFracDivisor : \E p \in 0..MaxScale : \E t \in 0..d :
        Begin(<<"fractional_remainder", d, p, t>>, fractional_remainder(d, p, t), TRUE)

NextFrac ==
    \/ \E c \in FracChars :
          /\ Len(consumed) < MaxFracLen
          /\ Step(c)
    \/ Return

SpecFrac == InitFrac /\ [][NextFrac]_vars

\* the character the last iteration consumed
LastChar(s) == s[Len(s)]

\* position of the first '.', or Len(s) + 1
DotPos(s) ==
    IF \E i \in 1..Len(s) : s[i] = "."
    THEN CHOOSE i \in 1..Len(s) : s[i] = "." /\ \A j \in 1..(i - 1) : s[j] # "."
    ELSE Len(s) + 1

IntDigits(s) == SubSeq(s, 1, DotPos(s) - 1)

FracDigits(s) == SubSeq(s, DotPos(s) + 1, Len(s))

AllDigits(s) == \A i \in 1..Len(s) : s[i] \in DigitChars

\* digits, optionally followed by '.' and more digits
IsNumeral(s) == AllDigits(IntDigits(s)) /\ AllDigits(FracDigits(s))

RECURSIVE MulMod(_, _, _)
\* (a * b) mod d without leaving TLC's integers, for d < 2^30
MulMod(a, b, d) ==
    IF b = 0 THEN 0
    ELSE (((2 * MulMod(a, b \div 2, d)) % d) + (IF b % 2 = 1 THEN a % d ELSE 0)) % d

RECURSIVE PowMod(_, _)
\* 10^n mod d
PowMod(n, d) == IF n = 0 THEN 1 % d ELSE MulMod(PowMod(n - 1, d), 10, d)

RECURSIVE DecMod(_, _)
\* the number a string of digits denotes, mod d
DecMod(s, d) ==
    IF s = <<>> THEN 0
    ELSE (MulMod(DecMod(SubSeq(s, 1, Len(s) - 1), d), 10, d)
          + ToDigit(s[Len(s)])) % d

\* (I * 10^p + sum of fj * 10^(p-j)) mod d for the numeral s with k <= p
\* fractional digits
ScaledMod(s, p, d) ==
    (MulMod(DecMod(IntDigits(s), d), PowMod(p, d), d)
     + MulMod(DecMod(FracDigits(s), d), PowMod(p - Len(FracDigits(s)), d), d)) % d

\* what C6 says matches returns on the numeral s
C6_Expected(s) ==
    /\ Len(FracDigits(s)) <= start.scale
    /\ ScaledMod(s, start.scale, start.divisor) = start.target_remainder

\* C6: for a node built with divisor D >= 1, scale p and target t, matches on a
\* numeral with k fractional digits is true exactly when k <= p and the scaled
\* value is congruent to t modulo D (read for the scales up to 9 that the
\* specification lets divisor scaling return).
C6_FractionalMatchesMod ==
    (/\ pc # "loop"
     /\ IsNumeral(consumed)
     /\ start.divisor >= 1
     /\ start.scale <= 9)
    => (pc = "done" /\ result = C6_Expected(consumed))

\* C7: in every Remainder node reachable from a node built with divisor >= 1,
\* current_remainder < divisor.
C7_RemainderBelowDivisor ==
    (current.tag = "Remainder" /\ start.divisor >= 1)
    => current.current_remainder < current.divisor

\* a digit step has stored the largest remainder of a divisor above 1
C7_Witness ==
    /\ current.tag = "Remainder"
    /\ consumed # <<>>
    /\ current.divisor = MaxFracDivisor
    /\ current.current_remainder = current.divisor - 1

\* C8: fractional_mode never reverts to false along the derivative steps of a
\* Remainder node, a node that is no Remainder never becomes one, and the mode
\* becomes true only by consuming '.'.
C8_FractionalModeMonotonic ==
    [][/\ (current.tag # "Remainder") => (current'.tag # "Remainder")
       /\ (current.tag = "Remainder" /\ current'.tag = "Remainder")
          => /\ current.fractional_mode => current'.fractional_mode
             /\ (~current.fractional_mode /\ current'.fractional_mode)
                => (consumed' = Append(consumed, "."))]_vars

\* a digit was consumed after the point and the node is still in fractional mode
C8_Witness ==
    /\ current.tag = "Remainder"
    /\ current.fractional_mode
    /\ Len(consumed) >= 2
    /\ LastChar(consumed) \in DigitChars

\* C9: scale is unchanged by a step taken while fractional_mode is false, drops
\* by exactly one per digit consumed while it is true, never goes below zero,
\* and a digit consumed in fractional mode at scale 0 yields Empty.
C9_ScaleBudget ==
    [][(current.tag = "Remainder" /\ pc' = "loop" /\ consumed' # consumed)
       => /\ (~current.fractional_mode /\ current'.tag = "Remainder")
             => current'.scale = current.scale
          /\ (current.fractional_mode /\ current'.tag = "Remainder")
             => /\ LastChar(consumed') \in DigitChars
                /\ current'.scale = current.scale - 1
          /\ (current'.tag = "Remainder") => current'.scale >= 0
          /\ (/\ current.fractional_mode
              /\ current.scale = 0
              /\ LastChar(consumed') \in DigitChars)
             => current' = Empty]_vars

\* the budget of a node with scale above 0 is used up and one more digit came
C9_Witness ==
    /\ start.scale = MaxScale
    /\ Len(consumed) = MaxScale + 2
    /\ consumed[1] = "."
    /\ AllDigits(Tail(consumed))
    /\ current = Empty

\* the strings of length at most n over the characters cs
RECURSIVE StringsUpTo(_, _)
StringsUpTo(cs, n) ==
    IF n = 0 THEN {<<>>}
    ELSE LET shorter == StringsUpTo(cs, n - 1)
         IN  shorter \cup {Append(s, c) : s \in shorter, c \in cs}

\* the numerals and near-numerals a Remainder node is probed with
ProbeStrings == StringsUpTo(DigitChars \cup {"."}, MaxFracLen)

\* C10 as stated: every Remainder node, built or reached, accepts some string
\* (read for the targets that are a remainder of the divisor).
C10_NeverEmpty ==
    (/\ current.tag = "Remainder"
     /\ pc = "loop"
     /\ start.target_remainder < start.divisor)
    => \E s \in ProbeStrings : matches(current, s)

\* the decimal numeral of t / 10^p: the digits of t with the point before the
\* last p of them
RECURSIVE ZeroPad(_, _)
ZeroPad(s, n) == IF Len(s) >= n THEN s ELSE ZeroPad(<<"0">> \o s, n)

TargetNumeral(t, p) ==
    IF p = 0 THEN to_string(t)
    ELSE to_string(t \div (10 ^ p)) \o <<".">> \o ZeroPad(to_string(t % (10 ^ p)), p)

\* C10 as amended: a node built with target_remainder < divisor and scale <= 9
\* accepts the decimal numeral of target_remainder / 10^scale.
C10_BuiltNodeAcceptsTarget ==
    (/\ pc = "done"
     /\ start.target_remainder < start.divisor
     /\ start.scale <= 9
     /\ consumed = TargetNumeral(start.target_remainder, start.scale))
    => result = TRUE

\* "0.05" is accepted by the node of divisor 6, scale 2, target 5
C10_Witness ==
    /\ pc = "done"
    /\ start.target_remainder = 5
    /\ start.scale = MaxScale
    /\ start.divisor = MaxFracDivisor
    /\ consumed = TargetNumeral(start.target_remainder, start.scale)
    /\ result = TRUE

(***************************************************************************)
(* Remainder nodes whose arithmetic reaches the end of the u32 range:      *)
(* remainder(500000000, t), and the (divisor, scale) that scale_divisor    *)
(* returns for 0.0, 0.000000003 and 0.0000000001.  Both builds are         *)
(* explored: with overflow checks (a panic) and without (wrapping).        *)
(***************************************************************************)
WideCases == {<<500000000, 0>>, <<0, 0>>, <<3, 9>>, <<1, 10>>}

WideChars == {"9", "."}

MaxWideLen == 10

InitWide ==
    \E dp \in WideCases : \E t \in 0..2 : \E checks \in BOOLEAN :
        Begin(<<"fractional_remainder", dp[1], dp[2], t>>,
              fractional_remainder(dp[1], dp[2], t), checks)

NextWide ==
    \/ \E c \in WideChars :
          /\ Len(consumed) < MaxWideLen
          /\ Step(c)
    \/ Return

SpecWide == InitWide /\ [][NextWide]_vars

\* C5: matching is total: no derivative step fails, whatever the divisor and
\* the scale the combinators gave the Remainder node.
C5_MatchingNeverFails == (start.divisor >= 1) => (pc # "panicked")

(***************************************************************************)
(* Trees over the alphabet {a, b}, enumerated by their number of nodes.    *)
(***************************************************************************)
Sigma == {"a", "b"}

Leaves == {Empty, Epsilon} \cup {Literal(c) : c \in Sigma}

RECURSIVE TreesOfSize(_, _)
RECURSIVE ListsOfSize(_, _)

\* the sequences of trees with m nodes in all
ListsOfSize(m, full) ==
    IF m = 0 THEN {<<>>}
    ELSE UNION {{<<t>> \o l : t \in TreesOfSize(k, full),
                              l \in ListsOfSize(m - k, full)} : k \in 1..m}

\* the trees with n nodes; with And and Not when full
TreesOfSize(n, full) ==
    LET lists == ListsOfSize(n - 1, full)
        boxed == IF n = 1 THEN {} ELSE TreesOfSize(n - 1, full)
    IN  (IF n = 1 THEN Leaves ELSE {})
        \cup {Concat(l) : l \in lists}
        \cup {Or(l) : l \in lists}
        \cup {Star(t) : t \in boxed}
        \cup (IF full THEN {And(l) : l \in lists} \cup {Not(t) : t \in boxed}
              ELSE {})

TreesUpTo(n, full) == UNION {TreesOfSize(k, full) : k \in 1..n}

(***************************************************************************)
(* The regular language of a tree, by its denotation.                      *)
(***************************************************************************)
RECURSIVE InLang(_, _)
RECURSIVE InConcat(_, _, _)

\* s is a concatenation of strings of kids[i], kids[i+1], ..
InConcat(kids, i, s) ==
    IF i > Len(kids) THEN s = <<>>
    ELSE \E k \in 0..Len(s) :
            /\ InLang(kids[i], SubSeq(s, 1, k))
            /\ InConcat(kids, i + 1, SubSeq(s, k + 1, Len(s)))

InLang(r, s) ==
    CASE r.tag = "Empty" -> FALSE
      [] r.tag = "Epsilon" -> s = <<>>
      [] r.tag = "Literal" -> s = <<r.ch>>
      [] r.tag = "Concat" -> InConcat(r.kids, 1, s)
      [] r.tag = "Or" -> \E i \in 1..Len(r.kids) : InLang(r.kids[i], s)
      [] r.tag = "And" -> \A i \in 1..Len(r.kids) : InLang(r.kids[i], s)
      [] r.tag = "Not" -> ~InLang(r.kids[1], s)
      [] r.tag = "Star" ->
            \/ s = <<>>
            \/ \E k \in 1..Len(s) :
                  /\ InLang(r.kids[1], SubSeq(s, 1, k))
                  /\ InLang(r, SubSeq(s, k + 1, Len(s)))

(***************************************************************************)
(* matches on the trees of Empty, Epsilon, Literal, Concat, Or and Star    *)
(***************************************************************************)
MaxNodes == 3

MaxLen == 2

\* the tree of test_regex, and the length of its longest input
AThenBs == Concat(<<Literal("a"), Star(Literal("b"))>>)

TestRegexLen == 3

ClassicTrees == TreesUpTo(MaxNodes, FALSE) \cup {AThenBs}

InitRegex == \E t \in ClassicTrees : Begin(<<"tree">>, t, TRUE)

NextRegex ==
    \/ \E c \in Sigma :
          /\ Len(consumed) < (IF start = AThenBs THEN TestRegexLen ELSE MaxLen)
          /\ Step(c)
    \/ Return

SpecRegex == InitRegex /\ [][NextRegex]_vars

\* C2: on a tree of Empty, Epsilon, Literal, Concat, Or and Star, matches is
\* true exactly on the strings of the tree's regular language; the tree
\* Concat(Literal a, Star(Literal b)) accepts exactly an 'a' followed by 'b's.
C2_MatchesIsLanguage ==
    (pc = "done")
    => /\ result = InLang(start, consumed)
       /\ (start = AThenBs)
          => (result = (/\ consumed # <<>>
                        /\ consumed[1] = "a"
                        /\ \A i \in 2..Len(consumed) : consumed[i] = "b"))

\* "abb" is accepted by the tree of test_regex
C2_Witness ==
    /\ pc = "done"
    /\ start = AThenBs
    /\ consumed = <<"a", "b", "b">>
    /\ result = TRUE

(***************************************************************************)
(* repeat                                                                  *)
(***************************************************************************)
\* Option<u32>: None
NoHigh == 0 - 1

RECURSIVE Copies(_, _)
\* n copies of the tree x in a Vec
Copies(x, n) == IF n <= 0 THEN <<>> ELSE <<x>> \o Copies(x, n - 1)

\* repeat with the optional copies counted over low..=high
repeatInclusive(r, low, high) ==
    Concat(Copies(r, low)
           \o (IF high # NoHigh
               THEN Copies(Or(<<Epsilon, r>>), high - low + 1)
               ELSE <<Star(r)>>))

\* repeat (lines 130-143)
repeat(r, low, high) ==
    Concat(Copies(r, low)
           \o (IF high # NoHigh
               THEN Copies(Or(<<Epsilon, r>>), high - low)
               ELSE <<Star(r)>>))

MaxLow == 1

MaxHigh == 2

MaxRepeatLen == 3

RepeatBases ==
    {Literal("a"), Epsilon, Empty,
     Or(<<Literal("a"), Literal("b")>>),
     Concat(<<Literal("a"), Literal("b")>>),
     Star(Literal("b"))}

\* test_repeat: Literal('a') repeated 2 to 4 times, or at least 2 times, on the
\* inputs "a" to "aaaaa"
TestRepeatLow == 2

TestRepeatHigh == 4

TestRepeatInput == <<"a", "a", "a", "a", "a">>

TestRepeatCalls ==
    {<<"repeat", Literal("a"), TestRepeatLow, TestRepeatHigh>>,
     <<"repeat", Literal("a"), TestRepeatLow, NoHigh>>}

InitRepeat ==
    \/ \E r \in RepeatBases : \E low \in 0..MaxLow :
         \E high \in {NoHigh} \cup (low..MaxHigh) :
            Begin(<<"repeat", r, low, high>>, repeat(r, low, high), TRUE)
    \/ \E by \in TestRepeatCalls : Begin(by, repeat(by[2], by[3], by[4]), TRUE)

NextRepeat ==
    \/ \E c \in Sigma :
          /\ IF call \in TestRepeatCalls
             THEN /\ Len(consumed) < Len(TestRepeatInput)
                  /\ c = TestRepeatInput[Len(consumed) + 1]
             ELSE Len(consumed) < MaxRepeatLen
          /\ Step(c)
    \/ Return

SpecRepeat == InitRepeat /\ [][NextRepeat]_vars

RECURSIVE Pieces(_, _, _)
\* s is a concatenation of k strings that r accepts
Pieces(r, k, s) ==
    IF k = 0 THEN s = <<>>
    ELSE \E j \in 0..Len(s) :
            /\ matches(r, SubSeq(s, 1, j))
            /\ Pieces(r, k - 1, SubSeq(s, j + 1, Len(s)))

\* C3: for high >= low, repeat(r, low, Some(high)) accepts exactly the
\* concatenations of k strings of r with low <= k <= high, and
\* repeat(r, low, None) those with k >= low (of which the empty pieces beyond
\* low can be dropped, so k <= low + Len(s) decides it).
C3_RepeatCounts ==
    (pc = "done")
    => LET r == call[2]
           low == call[3]
           high == IF call[4] = NoHigh THEN low + Len(consumed) ELSE call[4]
       IN  result = (\E k \in low..high : Pieces(r, k, consumed))

\* one repetition more than high is rejected
C3_Witness ==
    /\ pc = "done"
    /\ call = <<"repeat", Literal("a"), MaxLow, MaxHigh>>
    /\ consumed = Copies("a", MaxHigh + 1)
    /\ result = FALSE

(***************************************************************************)
(* The emptiness oracle and the early-terminating driver of the design     *)
(* notes (sections 4.3 and 4.5); ast.rs has neither.                       *)
(***************************************************************************)
RECURSIVE isEmptyLanguage(_)
isEmptyLanguage(r) ==
    CASE r.tag = "Empty" -> TRUE
      [] r.tag = "Epsilon" -> FALSE
      [] r.tag = "Literal" -> FALSE
      [] r.tag = "Concat" -> \E i \in 1..Len(r.kids) : isEmptyLanguage(r.kids[i])
      [] r.tag = "Or" -> \A i \in 1..Len(r.kids) : isEmptyLanguage(r.kids[i])
      [] r.tag = "And" -> \E i \in 1..Len(r.kids) : isEmptyLanguage(r.kids[i])
      [] r.tag = "Not" -> ~isEmptyLanguage(r.kids[1])
      [] r.tag = "Star" -> FALSE
      [] r.tag = "Remainder" -> FALSE

RECURSIVE matchesEarly(_, _)
\* for each character: false at once if the current tree is empty, else step
matchesEarly(r, s) ==
    IF s = <<>> THEN nullable(r)
    ELSE IF isEmptyLanguage(r) THEN FALSE
    ELSE matchesEarly(derivative(r, Head(s)), Tail(s))

(***************************************************************************)
(* matches on the trees of all the variants but Remainder                  *)
(***************************************************************************)
MaxFullNodes == 3

FullTrees == TreesUpTo(MaxFullNodes, TRUE)

InitFull == \E t \in FullTrees : Begin(<<"tree">>, t, TRUE)

NextFull ==
    \/ \E c \in Sigma :
          /\ Len(consumed) < MaxLen
          /\ Step(c)
    \/ Return

SpecFull == InitFull /\ [][NextFull]_vars

\* C4: the driver that returns false as soon as isEmptyLanguage(current)
\* holds returns what matches returns.
C4_EarlyTerminationIsOptimization ==
    (pc = "done") => (result = matchesEarly(start, consumed))

RECURSIVE HasNot(_)
\* some node of the tree is a Not
HasNot(r) ==
    \/ r.tag = "Not"
    \/ r.tag # "Remainder" /\ \E i \in 1..Len(r.kids) : HasNot(r.kids[i])

\* C4 (amended): on every tree without Not, the driver that returns false
\* as soon as isEmptyLanguage(current) holds returns what matches returns.
C4_EarlyTerminationWithoutNot ==
    (pc = "done" /\ ~HasNot(start)) =>
        (result = matchesEarly(start, consumed))

\* the early return fires in the middle of the input of a tree without Not
C4_Witness ==
    /\ pc = "done"
    /\ ~HasNot(start)
    /\ Len(consumed) = MaxLen
    /\ ~isEmptyLanguage(start)
    /\ isEmptyLanguage(derivative(start, Head(consumed)))
    /\ result = FALSE

(***************************************************************************)
(* matches on Not(Or([a, b])) for pairs of trees a, b                      *)
(***************************************************************************)
MaxPairNodes == 3

\* the pairs of trees with at most MaxPairNodes nodes in all
TreePairs ==
    {l \in UNION {ListsOfSize(m, TRUE) : m \in 2..MaxPairNodes} : Len(l) = 2}

InitDeMorgan ==
    \E l \in TreePairs :
        Begin(<<"not_or", l[1], l[2]>>, Not(Or(<<l[1], l[2]>>)), TRUE)

NextDeMorgan ==
    \/ \E c \in Sigma :
          /\ Len(consumed) < MaxLen
          /\ Step(c)
    \/ Return

SpecDeMorgan == InitDeMorgan /\ [][NextDeMorgan]_vars

\* C11: matches(Not(Or([a, b])), s) is true exactly when neither
\* matches(a, s) nor matches(b, s) is.
C11_DeMorgan ==
    (pc = "done") =>
        (result = ~(matches(call[2], consumed) \/ matches(call[3], consumed)))

\* "ab" is in neither a nor b*, so Not(Or([a, b*])) accepts it
C11_Witness ==
    /\ pc = "done"
    /\ call = <<"not_or", Literal("a"), Star(Literal("b"))>>
    /\ consumed = <<"a", "b">>
    /\ result = TRUE

(***************************************************************************)
(* matches on the nested form of Or, And and Concat of three trees         *)
(***************************************************************************)
\* the nodes of the three trees and the characters of the input, together
MaxNestedSize == 5

\* the triples of trees that leave room for an input of two characters
TreeTriples ==
    {l \in UNION {ListsOfSize(m, TRUE) : m \in 3..(MaxNestedSize - 2)} :
        Len(l) = 3}

RECURSIVE Nodes(_)
\* the number of nodes of a tree
Nodes(r) ==
    IF r.tag = "Remainder" \/ r.kids = <<>> THEN 1
    ELSE IF Len(r.kids) = 1 THEN 1 + Nodes(r.kids[1])
    ELSE 1 + Nodes(r.kids[1]) + Nodes([r EXCEPT !.kids = Tail(r.kids)]) - 1

ListOps == {"Or", "And", "Concat"}

\* the list variant op over the elements rxs
ListNode(op, rxs) ==
    CASE op = "Or" -> Or(rxs)
      [] op = "And" -> And(rxs)
      [] op = "Concat" -> Concat(rxs)

\* op([op([a, b]), c])
Nested(op, l) == ListNode(op, <<ListNode(op, <<l[1], l[2]>>), l[3]>>)

InitNested ==
    \E op \in ListOps : \E l \in TreeTriples :
        Begin(<<"nested", op, l>>, Nested(op, l), TRUE)

NextNested ==
    \/ \E c \in Sigma :
          /\ Len(consumed) + Nodes(call[3][1]) + Nodes(call[3][2])
                + Nodes(call[3][3]) < MaxNestedSize
          /\ Step(c)
    \/ Return

SpecNested == InitNested /\ [][NextNested]_vars

\* C12: matches on Or([Or([a, b]), c]) returns what matches returns on
\* Or([a, b, c]), and likewise for And and for Concat.
C12_NestedIsFlat ==
    (pc = "done") => (result = matches(ListNode(call[2], call[3]), consumed))

\* the nested Concat of a, b and Epsilon accepts "ab"
C12_Witness ==
    /\ pc = "done"
    /\ call = <<"nested", "Concat", <<Literal("a"), Literal("b"), Epsilon>>>>
    /\ consumed = <<"a", "b">>
    /\ result = TRUE

(***************************************************************************)
(* scale_divisor.  An f32 is written by its Display text, which            *)
(* determines it; the results of its float operations are carried along:   *)
(* fract() == 0.0, abs() as u32, and the single-precision product          *)
(* divisor * 10_f32.powi(scale) for the scale that the text gives.         *)
(***************************************************************************)
\* a product above u32::MAX as f32 (infinity included)
AboveU32 == 0 - 1

F32(text, fract_zero, as_u32, scaled) ==
    [text |-> text, fract_zero |-> fract_zero, as_u32 |-> as_u32,
     scaled |-> scaled]

\* the divisors of test_remainder_fractional and its step, integers, a
\* negative divisor, the largest half-integer, divisors with 9, 10 and 39
\* fractional digits, NaN and infinity
F32Divisors ==
    {F32(<<"2", ".", "5">>, FALSE, 0, 25),
     F32(<<"2", ".", "2", "5">>, FALSE, 0, 225),
     F32(<<"2", ".", "1", "2", "5">>, FALSE, 0, 2125),
     F32(<<"1", ".", "5">>, FALSE, 0, 15),
     F32(<<"1", ".", "2", "5">>, FALSE, 0, 125),
     F32(<<"1", ".", "1", "2", "5">>, FALSE, 0, 1125),
     F32(<<"0", ".", "5">>, FALSE, 0, 5),
     F32(<<"0", ".", "2", "5">>, FALSE, 0, 25),
     F32(<<"0", ".", "1", "2", "5">>, FALSE, 0, 125),
     F32(<<"0", ".", "0", "5">>, FALSE, 0, 5),
     F32(<<"0", ".", "0", "1", "2", "5">>, FALSE, 0, 125),
     F32(<<"3">>, TRUE, 3, 0),
     F32(<<"0">>, TRUE, 0, 0),
     F32(<<"5", "0", "0", "0", "0", "0", "0", "0", "0">>, TRUE, 500000000, 0),
     F32(<<"-", "2", ".", "5">>, FALSE, 0, 25),
     F32(<<"8", "3", "8", "8", "6", "0", "7", ".", "5">>, FALSE, 0, 83886072),
     F32(<<"0", ".", "0", "0", "0", "0", "0", "0", "0", "0", "3">>, FALSE, 0, 3),
     F32(<<"0", ".", "0", "0", "0", "0", "0", "0", "0", "0", "0", "1">>, FALSE, 0, 1),
     F32(<<"0", ".", "0", "0", "0", "0", "0", "0", "0", "0", "1", "2">>, FALSE, 0, 12),
     F32(<<"0", ".", "0", "0", "0", "0", "0", "0", "0", "0", "0", "0", "0", "0", "0", "0", "0", "0", "0", "0", "0", "0", "0", "0", "0", "0", "0", "0", "0", "0", "0", "0", "0", "0", "0", "0", "0", "0", "0", "0", "1">>, FALSE, 0, AboveU32),
     F32(<<"N", "a", "N">>, FALSE, 0, 0),
     F32(<<"i", "n", "f">>, FALSE, 0, 0)}

Ok(divisor, scale) == [ok |-> TRUE, divisor |-> divisor, scale |-> scale, err |-> ""]

Err(msg) == [ok |-> FALSE, divisor |-> 0, scale |-> 0, err |-> msg]

\* divisor_str.split('.').nth(1): the text between the first and the second
\* '.', with found FALSE when there is no '.'
DecimalPart(str) ==
    IF DotPos(str) > Len(str) THEN [found |-> FALSE, part |-> <<>>]
    ELSE [found |-> TRUE,
          part |-> IntDigits(SubSeq(str, DotPos(str) + 1, Len(str)))]

\* scale_divisor (lines 176-193)
scale_divisor(x) ==
    IF x.fract_zero THEN Ok(x.as_u32, 0)
    ELSE IF ~DecimalPart(x.text).found THEN Err("No decimal part found")
    ELSE IF x.scaled = AboveU32 THEN Err("Scaled divisor exceeds u32::MAX")
    ELSE Ok(x.scaled, Len(DecimalPart(x.text).part))

MaxScaleLen == 3

ScaleChars == {"0", "5", "."}

\* fractional_remainder(x, t): the error of scale_divisor is propagated by `?`
InitScale ==
    \E x \in F32Divisors : \E t \in 0..1 :
        IF scale_divisor(x).ok
        THEN Begin(<<"fractional_remainder", x.text, t, "Ok">>,
                   fractional_remainder(scale_divisor(x).divisor,
                                        scale_divisor(x).scale, t), TRUE)
        ELSE /\ call = <<"fractional_remainder", x.text, t, scale_divisor(x).err>>
             /\ start = Empty
             /\ current = Empty
             /\ consumed = <<>>
             /\ pc = "failed"
             /\ result = FALSE
             /\ overflow_checks = TRUE

NextScale ==
    \/ \E c \in ScaleChars :
          /\ Len(consumed) < MaxScaleLen
          /\ Step(c)
    \/ Return

SpecScale == InitScale /\ [][NextScale]_vars

\* C13: a divisor whose text has more than 9 fractional digits fails with
\* TooManyDecimalPlaces, and fractional_remainder builds no Remainder node
\* with scale > 9.
C13_TooManyDecimalPlaces ==
    /\ (DecimalPart(call[2]).found /\ Len(DecimalPart(call[2]).part) > 9)
       => (pc = "failed" /\ call[4] = "TooManyDecimalPlaces")
    /\ (start.tag = "Remainder") => (start.scale <= 9)

(***************************************************************************)
(* literal                                                                 *)
(***************************************************************************)
\* literal without the Literal of the last character
literalDropsLast(s) == Concat([i \in 1..(Len(s) - 1) |-> Literal(s[i])])

\* literal (lines 145-151)
literal(s) == Concat([i \in 1..Len(s) |-> Literal(s[i])])

MaxLiteralLen == 2

InitLiteral ==
    \E s \in StringsUpTo(Sigma, MaxLiteralLen) :
        Begin(<<"literal", s>>, literal(s), TRUE)

\* inputs up to one character longer than the longest literal
NextLiteral ==
    \/ \E c \in Sigma :
          /\ Len(consumed) <= MaxLiteralLen
          /\ Step(c)
    \/ Return

SpecLiteral == InitLiteral /\ [][NextLiteral]_vars

\* C14: matches(literal(s), t) is true exactly when t = s; literal of the
\* empty string is the empty Concat and accepts the empty string only.
C14_LiteralMatchesItself ==
    /\ (pc = "done") => (result = (consumed = call[2]))
    /\ (call[2] = <<>>) => (start = Concat(<<>>))

\* literal("ab") accepts "ab"
C14_Witness ==
    /\ pc = "done"
    /\ call = <<"literal", <<"a", "b">>>>
    /\ consumed = <<"a", "b">>
    /\ result = TRUE

(***************************************************************************)
(* The derivative of Concat([s1, .., sn]) by a first character, then the   *)
(* rest of the input                                                       *)
(***************************************************************************)
\* the nodes of the elements and the characters of the input, together
MaxConcatSize == 5

\* the lists of trees of Empty, Epsilon, Literal, Concat, Or and Star that
\* leave room for an input of two characters
ConcatLists == UNION {ListsOfSize(m, FALSE) : m \in 0..(MaxConcatSize - 2)}

InitConcat == \E l \in ConcatLists : Begin(<<"concat", l>>, Concat(l), TRUE)

NextConcat ==
    \/ \E c \in Sigma :
          /\ Len(consumed) <= MaxLen
          /\ Len(consumed) + Nodes(start) - 1 < MaxConcatSize
          /\ Step(c)
    \/ Return

SpecConcat == InitConcat /\ [][NextConcat]_vars

\* w is in derivative(si, c) followed by s(i+1) .. sn, for an i whose
\* predecessors are all nullable
InPositionwise(l, c, w) ==
    \E i \in 1..Len(l) :
        /\ \A j \in 1..(i - 1) : nullable(l[j])
        /\ InLang(Concat(<<derivative(l[i], c)>> \o SubSeq(l, i + 1, Len(l))), w)

RECURSIVE BinaryRule(_, _)
\* d_c(r . s) = d_c r . s + nu(r) . d_c s on the right-nested binary Concat
BinaryRule(l, c) ==
    IF l = <<>> THEN Empty
    ELSE Or(<<Concat(<<derivative(Head(l), c), Concat(Tail(l))>>),
              Concat(<<null(Head(l)), BinaryRule(Tail(l), c)>>)>>)

\* C15: derivative(Concat([s1..sn]), c) accepts w exactly when some si has
\* only nullable predecessors and w is in derivative(si, c) followed by
\* s(i+1)..sn; it agrees with the binary rule on the right-nested Concat.
C15_ConcatFoldIsPositionwise ==
    (pc = "done" /\ consumed # <<>>) =>
        /\ result = InPositionwise(call[2], Head(consumed), Tail(consumed))
        /\ result = InLang(BinaryRule(call[2], Head(consumed)), Tail(consumed))

\* the derivative passes the nullable first element: "ab" on [Epsilon, a, b]
C15_Witness ==
    /\ pc = "done"
    /\ call = <<"concat", <<Epsilon, Literal("a"), Literal("b")>>>>
    /\ consumed = <<"a", "b">>
    /\ result = TRUE

(***************************************************************************)
(* Rejection and frame of the Remainder arm, on the runs of SpecFrac       *)
(***************************************************************************)
\* s has a second '.' or a character that is neither a digit nor '.'
Rejected(s) ==
    \E i \in 1..Len(s) :
        \/ s[i] \notin (DigitChars \cup {"."})
        \/ s[i] = "." /\ \E j \in 1..(i - 1) : s[j] = "."

\* C16: once the input has a second '.' or a character that is neither a
\* digit nor '.', the tree is Empty, every derivative of it is Empty, and
\* matches returns false for that input and every extension of it.
C16_RejectionIsPermanent ==
    Rejected(consumed) =>
        /\ current = Empty
        /\ \A c \in FracChars : derivative(current, c) = Empty
        /\ pc \in {"loop", "done"}
        /\ (pc = "done") => (result = FALSE)

\* an input rejected for its 'x' alone: without it the node accepts
C16_Witness ==
    /\ pc = "done"
    /\ Len(consumed) = 3
    /\ consumed[2] = "x"
    /\ matches(start, <<consumed[1], consumed[3]>>)
    /\ result = FALSE

\* C17: a step that yields a Remainder node keeps divisor and
\* target_remainder; the step on the first '.' keeps current_remainder and
\* scale and sets fractional_mode; a digit step keeps fractional_mode; the
\* tree matches was called on is not modified.
C17_RemainderFrame ==
    [][/\ start' = start
       /\ (/\ current.tag = "Remainder"
           /\ current'.tag = "Remainder"
           /\ consumed' # consumed)
          => /\ current'.divisor = current.divisor
             /\ current'.target_remainder = current.target_remainder
             /\ (LastChar(consumed') = ".")
                => /\ ~current.fractional_mode
                   /\ current'.fractional_mode
                   /\ current'.current_remainder = current.current_remainder
                   /\ current'.scale = current.scale
             /\ (LastChar(consumed') \in DigitChars)
                => (current'.fractional_mode = current.fractional_mode)]_vars

\* the point was consumed with a remainder above 0 carried over
C17_Witness ==
    /\ current.tag = "Remainder"
    /\ consumed # <<>>
    /\ LastChar(consumed) = "."
    /\ current.fractional_mode
    /\ current.current_remainder > 0
    /\ current.scale > 0

(***************************************************************************)
(* The u32 arithmetic of the digit step, on the runs of SpecWide           *)
(***************************************************************************)
\* the remainder a digit step stores when no intermediate value is cut:
\* (current_remainder * 10 + digit * 10^scale) mod divisor, or
\* (current_remainder + digit * 10^(scale - 1)) mod divisor
ExactNext(node, digit) ==
    IF ~node.fractional_mode
    THEN (MulMod(node.current_remainder, 10, node.divisor)
          + MulMod(digit, PowMod(node.scale, node.divisor), node.divisor))
         % node.divisor
    ELSE ((node.current_remainder % node.divisor)
          + MulMod(digit, PowMod(node.scale - 1, node.divisor), node.divisor))
         % node.divisor

\* C18: for a Remainder node with divisor >= 1, current_remainder < divisor
\* and scale <= 9, no intermediate value of a digit step leaves the u32
\* range, and the stored remainder is the mathematical value modulo divisor.
C18_DigitStepFitsU32 ==
    (/\ current.tag = "Remainder"
     /\ current.divisor >= 1
     /\ current.current_remainder < current.divisor
     /\ current.scale <= 9
     /\ ~(current.fractional_mode /\ current.scale = 0))
    => \A digit \in 0..9 :
          /\ ~RemOverflows(current, digit)
          /\ RemNext(current, digit) = ExactNext(current, digit)

(***************************************************************************)
(* The nodes of SpecFrac that remainder builds: scale 0                    *)
(***************************************************************************)
\* s without its last character
Front(s) == SubSeq(s, 1, Len(s) - 1)

\* C19: a node built by remainder(d, r) rejects every numeral with a digit
\* after the point; a numeral with a trailing '.' is accepted exactly when
\* the numeral without it is; the empty string is accepted exactly when r = 0.
C19_IntegerNodeAndPoint ==
    (/\ pc = "done"
     /\ start = remainder(start.divisor, start.target_remainder)
     /\ IsNumeral(consumed))
    => /\ (FracDigits(consumed) # <<>>) => (result = FALSE)
       /\ (consumed # <<>> /\ LastChar(consumed) = ".")
          => (result = matches(start, Front(consumed)))
       /\ (consumed = <<>>) => (result = (start.target_remainder = 0))

\* "2.0" is rejected by remainder(2, 0), which accepts "2" and "2."
C19_Witness ==
    /\ pc = "done"
    /\ start = remainder(2, 0)
    /\ consumed = <<"2", ".", "0">>
    /\ result = FALSE
    /\ matches(start, <<"2">>)
    /\ matches(start, <<"2", ".">>)

====
